---- MODULE Spec2Model ----
(***************************************************************************)
(* Model of the Blood C runtime shim (runtime/runtime.c): the bootstrap    *)
(* main(), the string primitives, the formatted-output primitives and the  *)
(* assertions.  Text is modelled at byte level: a C string is an array of  *)
(* bytes 1..255 closed by a 0 byte, held in a heap cell; a char* is a heap *)
(* address or NULL.                                                        *)
(***************************************************************************)
EXTENDS Integers, Sequences, FiniteSets, TLC

(* ------------------------------- bounds -------------------------------- *)
\* primitive calls blood_main makes in one run
MaxCalls == 2
\* heap cells malloc can hand out
MaxAddr == 4
\* longest text drawn as an input of blood_str_cmp
MaxLen == 2
\* print_* / println_* calls in one run
MaxPrints == 3

(* --------------------------- program constants ------------------------- *)
NULL == 0
\* status string_alloc passes to exit() when malloc fails
OomStatus == 1

Addrs == 1..MaxAddr

(* ------------------------------ byte text ------------------------------ *)
\* "blood: out of memory\n"
MsgOom ==
    <<98, 108, 111, 111, 100, 58, 32, 111, 117, 116, 32, 111, 102, 32, 109,
      101, 109, 111, 114, 121, 10>>
\* "BLOOD ASSERTION FAILED\n"
MsgAssert ==
    <<66, 76, 79, 79, 68, 32, 65, 83, 83, 69, 82, 84, 73, 79, 78, 32, 70, 65,
      73, 76, 69, 68, 10>>
\* "BLOOD ASSERTION FAILED: "
MsgAssertEq ==
    <<66, 76, 79, 79, 68, 32, 65, 83, 83, 69, 82, 84, 73, 79, 78, 32, 70, 65,
      73, 76, 69, 68, 58, 32>>
\* " != "
MsgNe == <<32, 33, 61, 32>>
\* "\n"
Newline == <<10>>
\* "BLOOD RUNTIME ERROR: Unreachable code was reached!\n"
MsgUnreachable ==
    <<66, 76, 79, 79, 68, 32, 82, 85, 78, 84, 73, 77, 69, 32, 69, 82, 82, 79,
      82, 58, 32, 85, 110, 114, 101, 97, 99, 104, 97, 98, 108, 101, 32, 99,
      111, 100, 101, 32, 119, 97, 115, 32, 114, 101, 97, 99, 104, 101, 100,
      33, 10>>
\* "true" and "false"
TrueText == <<116, 114, 117, 101>>
FalseText == <<102, 97, 108, 115, 101>>

\* b ? "true" : "false"
BoolText(b) == IF b # 0 THEN TrueText ELSE FalseText

\* the decimal digits of a natural number, as printf's %u / %lu writes them
RECURSIVE DecDigits(_)
DecDigits(n) ==
    IF n < 10 THEN <<48 + n>> ELSE DecDigits(n \div 10) \o <<48 + (n % 10)>>

\* printf's %d / %ld: a minus sign and the digits of the magnitude
FmtDec(n) == IF n < 0 THEN <<45>> \o DecDigits(-n) ELSE DecDigits(n)

(* ------------------------------- state --------------------------------- *)
VARIABLES
    pc,            \* where main() stands
    term,          \* "running", "exited" (exit / return from main), "aborted"
    rt,            \* the external runtime: "uninitialized", "ready", "shutdown"
    calls,         \* the calls made so far, in order (what a test double records)
    result,        \* main's local `result`
    returned,      \* blood_main has returned and `result` is assigned
    exitStatus,    \* the status the process ended with (when term = "exited")
    argv,          \* the process argument vector handed to main
    argInit,       \* the argument vectors the external runtime was handed
    softLimit,     \* the soft stack-size limit of the process
    hardLimit,     \* the hard stack-size limit of the process
    execs,         \* how many times the process image was replaced
    stdoutBuf,     \* bytes held in stdout's buffer
    stdoutStream,  \* bytes visible on the output stream
    bufMode,       \* stdout's buffering: "full" or "line"
    fflushCalls,   \* explicit fflush(stdout) calls made
    stderrOut,     \* bytes written to the error stream (unbuffered)
    heap,          \* allocated cells: address -> byte array
    last,          \* the last primitive call: its name, arguments and result
    nprim,         \* primitive calls made
    cmpArgs,       \* the three char* handed to blood_str_cmp, or <<>>
    cmpRes         \* the results of blood_str_cmp over all pairs, or <<>>

vars ==
    <<pc, term, rt, calls, result, returned, exitStatus, argv, argInit,
      softLimit, hardLimit, execs, stdoutBuf, stdoutStream, bufMode,
      fflushCalls, stderrOut, heap, last, nprim, cmpArgs, cmpRes>>

envVars == <<argv, argInit, softLimit, hardLimit, execs>>
ioVars == <<stdoutBuf, stdoutStream, bufMode, fflushCalls>>
cmpVars == <<cmpArgs, cmpRes>>

NoCall == [op |-> "none", args |-> <<>>, ret |-> 0]

(* --------------------------- process environment ---------------------- *)
\* argument vectors a process may be started with
ArgVecs == {<<"prog">>, <<"prog", "-v">>}
\* stack-size limits in MiB; the minimum the design document asks for
StackMin == 64
LimitVals == {8, 64}

\* values blood_main may return, as int32_t
ResultVals == {-1, 0, 3}
\* int32_t arguments of the assertions
IntVals == {-42, 0, 5, 6, 2147483647}
BoolVals == {0, 1, 2}
\* int32_t arguments of blood_int_to_str
IntTextVals == {-42, 0}

\* the string constants of the compiled program: "" and a two-byte text
ProgramStrings == <<(<<0>>), (<<97, 200, 0>>)>>

(* ------------------------------ C library ------------------------------ *)
\* strlen: the number of bytes before the first 0 byte
RECURSIVE strlenFrom(_, _)
strlenFrom(s, i) == IF s[i] = 0 THEN i - 1 ELSE strlenFrom(s, i + 1)
strlen(s) == strlenFrom(s, 1)

\* memcpy(dst + off, src, n) on byte arrays
memcpy(dst, off, src, n) ==
    [i \in 1..Len(dst) |-> IF off < i /\ i <= off + n THEN src[i - off] ELSE dst[i]]

\* strcmp reading the bytes as signed char
RECURSIVE strcmpSignedFrom(_, _, _)
strcmpSignedFrom(s, t, i) ==
    LET sc(x) == IF x > 127 THEN x - 256 ELSE x
    IN  IF s[i] # t[i] THEN sc(s[i]) - sc(t[i])
        ELSE IF s[i] = 0 THEN 0
        ELSE strcmpSignedFrom(s, t, i + 1)
strcmp_signed(s, t) == strcmpSignedFrom(s, t, 1)

\* strcmp: the difference of the first differing bytes, as unsigned char
RECURSIVE strcmpFrom(_, _, _)
strcmpFrom(s, t, i) ==
    IF s[i] # t[i] THEN s[i] - t[i]
    ELSE IF s[i] = 0 THEN 0
    ELSE strcmpFrom(s, t, i + 1)
strcmp(s, t) == strcmpFrom(s, t, 1)

\* exit(status): stdio streams are flushed, the process ends with status
Exit(status) ==
    /\ term' = "exited"
    /\ exitStatus' = status
    /\ stdoutStream' = stdoutStream \o stdoutBuf
    /\ stdoutBuf' = <<>>
    /\ UNCHANGED <<bufMode, fflushCalls>>

\* the diagnostic without the abort() call
Abort_returns(msg) ==
    /\ stderrOut' = stderrOut \o msg
    /\ UNCHANGED <<term, exitStatus, ioVars>>

\* fprintf(stderr, msg); abort(): nothing is flushed, nothing returns
Abort(msg) ==
    /\ stderrOut' = stderrOut \o msg
    /\ term' = "aborted"
    /\ UNCHANGED <<exitStatus, ioVars>>

(* ------------------------------- main() -------------------------------- *)
Init ==
    /\ pc = "init"
    /\ term = "running"
    /\ rt = "uninitialized"
    /\ calls = <<>>
    /\ result = 0
    /\ returned = FALSE
    /\ exitStatus = 0
    /\ argv \in ArgVecs
    /\ argInit = <<>>
    /\ hardLimit \in LimitVals
    /\ softLimit \in {l \in LimitVals : l <= hardLimit}
    /\ execs = 0
    /\ stdoutBuf = <<>>
    /\ stdoutStream = <<>>
    /\ bufMode = "full"
    /\ fflushCalls = 0
    /\ stderrOut = <<>>
    /\ heap = ProgramStrings
    /\ last = NoCall
    /\ nprim = 0
    /\ cmpArgs = <<>>
    /\ cmpRes = <<>>

\* main without the initialisation call
blood_runtime_init_skipped ==
    /\ term = "running" /\ pc = "init"
    /\ pc' = "call_main"
    /\ UNCHANGED <<term, rt, calls, result, returned, exitStatus, envVars,
                   ioVars, stderrOut, heap, last, nprim, cmpVars>>

\* line 274: blood_runtime_init();
blood_runtime_init ==
    /\ term = "running" /\ pc = "init"
    /\ rt' = "ready"
    /\ calls' = Append(calls, "blood_runtime_init")
    /\ pc' = "call_main"
    /\ UNCHANGED <<term, result, returned, exitStatus, envVars, ioVars,
                   stderrOut, heap, last, nprim, cmpVars>>

\* line 277: blood_main() is entered
blood_main_enter ==
    /\ term = "running" /\ pc = "call_main"
    /\ calls' = Append(calls, "blood_main")
    /\ pc' = "in_main"
    /\ UNCHANGED <<term, rt, result, returned, exitStatus, envVars, ioVars,
                   stderrOut, heap, last, nprim, cmpVars>>

\* line 277: blood_main() returns r, which main stores in `result`
blood_main_return(r) ==
    /\ term = "running" /\ pc = "in_main"
    /\ result' = r
    /\ returned' = TRUE
    /\ calls' = Append(calls, "return")
    /\ pc' = "shutdown"
    /\ UNCHANGED <<term, rt, exitStatus, envVars, ioVars, stderrOut, heap,
                   last, nprim, cmpVars>>

\* line 280: blood_runtime_shutdown();
blood_runtime_shutdown ==
    /\ term = "running" /\ pc = "shutdown"
    /\ rt' = "shutdown"
    /\ calls' = Append(calls, "blood_runtime_shutdown")
    /\ pc' = "ret"
    /\ UNCHANGED <<term, result, returned, exitStatus, envVars, ioVars,
                   stderrOut, heap, last, nprim, cmpVars>>

\* main ending with `return 0;`
main_return_zero ==
    /\ term = "running" /\ pc = "ret"
    /\ Exit(0)
    /\ pc' = "done"
    /\ UNCHANGED <<rt, calls, result, returned, envVars, stderrOut, heap,
                   last, nprim, cmpVars>>

\* line 282: return result;  (the C start-up code passes it to exit)
main_return ==
    /\ term = "running" /\ pc = "ret"
    /\ Exit(result)
    /\ pc' = "done"
    /\ UNCHANGED <<rt, calls, result, returned, envVars, stderrOut, heap,
                   last, nprim, cmpVars>>

(* ----------------------------- assertions ------------------------------ *)
\* blood_main is running and may call a primitive
InMain == term = "running" /\ pc = "in_main"

\* bookkeeping of a primitive call that returned ret
Called(op, args, ret) ==
    /\ calls' = Append(calls, op)
    /\ last' = [op |-> op, args |-> args, ret |-> ret]
    /\ nprim' = nprim + 1

\* a primitive that returns without touching anything
Returns == UNCHANGED <<term, exitStatus, ioVars, stderrOut>>

blood_assert(condition) ==
    /\ InMain /\ nprim < MaxCalls
    /\ Called("blood_assert", <<condition>>, 0)
    /\ IF condition = 0 THEN Abort(MsgAssert) ELSE Returns
    /\ UNCHANGED <<pc, rt, result, returned, envVars, heap, cmpVars>>

\* the diagnostic printing `a` twice
blood_assert_eq_int_same_arg(a, b) ==
    /\ InMain /\ nprim < MaxCalls
    /\ Called("blood_assert_eq_int", <<a, b>>, 0)
    /\ IF a # b
       THEN Abort(MsgAssertEq \o FmtDec(a) \o MsgNe \o FmtDec(a) \o Newline)
       ELSE Returns
    /\ UNCHANGED <<pc, rt, result, returned, envVars, heap, cmpVars>>

blood_assert_eq_int(a, b) ==
    /\ InMain /\ nprim < MaxCalls
    /\ Called("blood_assert_eq_int", <<a, b>>, 0)
    /\ IF a # b
       THEN Abort(MsgAssertEq \o FmtDec(a) \o MsgNe \o FmtDec(b) \o Newline)
       ELSE Returns
    /\ UNCHANGED <<pc, rt, result, returned, envVars, heap, cmpVars>>

blood_assert_eq_bool(a, b) ==
    /\ InMain /\ nprim < MaxCalls
    /\ Called("blood_assert_eq_bool", <<a, b>>, 0)
    /\ IF a # b
       THEN Abort(MsgAssertEq \o BoolText(a) \o MsgNe \o BoolText(b) \o Newline)
       ELSE Returns
    /\ UNCHANGED <<pc, rt, result, returned, envVars, heap, cmpVars>>

blood_unreachable ==
    /\ InMain /\ nprim < MaxCalls
    /\ Called("blood_unreachable", <<>>, 0)
    /\ Abort(MsgUnreachable)
    /\ UNCHANGED <<pc, rt, result, returned, envVars, heap, cmpVars>>

(* ------------------------------- strings ------------------------------- *)
\* the "" literal that replaces a NULL argument
EmptyLit == <<0>>
\* bytes an uninitialised malloc block may hold
JunkBytes == {0, 255}

\* lines 32-33: if (p == NULL) p = "";
Normalize(h, p) == IF p = NULL THEN EmptyLit ELSE h[p]

\* the two copies taking their sources in the wrong order
ConcatBytes_swapped(sa, sb, junk) ==
    LET len_a == strlen(sa)
        len_b == strlen(sb)
        block == [i \in 1..(len_a + len_b + 1) |-> junk]
    IN  memcpy(memcpy(block, 0, sb, len_b), len_b, sa, len_a + 1)

\* lines 34-38: the block of len_a + len_b + 1 bytes after the two memcpy
ConcatBytes(sa, sb, junk) ==
    LET len_a == strlen(sa)
        len_b == strlen(sb)
        block == [i \in 1..(len_a + len_b + 1) |-> junk]
    IN  memcpy(memcpy(block, 0, sa, len_a), len_a, sb, len_b + 1)

\* blood_str_len
blood_str_len(h, s) == IF s # NULL THEN strlen(h[s]) ELSE 0

\* blood_str_cmp
blood_str_cmp(h, a, b) ==
    IF a = NULL /\ b = NULL THEN 0
    ELSE IF a = NULL THEN -1
    ELSE IF b = NULL THEN 1
    ELSE strcmp(h[a], h[b])

\* the block a successful malloc returns: one not allocated yet (addresses
\* carry no meaning, so the lowest free one stands for any of them)
Fresh(h) ==
    {p \in Addrs \ DOMAIN h : \A q \in Addrs \ DOMAIN h : p <= q}

\* string_alloc when malloc returns NULL: the diagnostic, then exit(1)
string_alloc_fails ==
    /\ stderrOut' = stderrOut \o MsgOom
    /\ Exit(OomStatus)

\* blood_str_concat, with string_alloc: malloc hands out a fresh block or fails
blood_str_concat(a, b) ==
    /\ InMain /\ nprim < MaxCalls
    /\ \/ \E p \in Fresh(heap), junk \in JunkBytes :
            /\ heap' = [q \in DOMAIN heap \cup {p} |->
                          IF q = p
                          THEN ConcatBytes(Normalize(heap, a), Normalize(heap, b), junk)
                          ELSE heap[q]]
            /\ Called("blood_str_concat", <<a, b>>, p)
            /\ Returns
       \/ /\ string_alloc_fails
          /\ Called("blood_str_concat", <<a, b>>, NULL)
          /\ UNCHANGED heap
    /\ UNCHANGED <<pc, rt, result, returned, envVars, cmpVars>>

\* blood_int_to_str: snprintf "%d" into a local buffer, then a copy of it
blood_int_to_str(n) ==
    /\ InMain /\ nprim < MaxCalls
    /\ LET buffer == FmtDec(n) \o <<0>>
       IN  \/ \E p \in Fresh(heap) :
                 /\ heap' = [q \in DOMAIN heap \cup {p} |->
                               IF q = p
                               THEN SubSeq(buffer, 1, strlen(buffer) + 1)
                               ELSE heap[q]]
                 /\ Called("blood_int_to_str", <<n>>, p)
                 /\ Returns
           \/ /\ string_alloc_fails
              /\ Called("blood_int_to_str", <<n>>, NULL)
              /\ UNCHANGED heap
    /\ UNCHANGED <<pc, rt, result, returned, envVars, cmpVars>>

Next ==
    \/ blood_runtime_init
    \/ blood_main_enter
    \/ \E r \in ResultVals : blood_main_return(r)
    \/ blood_runtime_shutdown
    \/ main_return
    \/ \E c \in BoolVals : blood_assert(c)
    \/ \E a, b \in IntVals : blood_assert_eq_int(a, b)
    \/ \E a, b \in BoolVals : blood_assert_eq_bool(a, b)
    \/ blood_unreachable
    \/ \E a, b \in {NULL} \cup DOMAIN heap : blood_str_concat(a, b)
    \/ \E n \in IntTextVals : blood_int_to_str(n)

Spec == Init /\ [][Next]_vars

(* ------------------------- blood_str_cmp calls ------------------------ *)
\* bytes of the texts compared: one below and one above 127
CmpBytes == {97, 200}
\* the texts of at most MaxLen bytes, and their byte arrays
Texts == UNION {[1..n -> CmpBytes] : n \in 0..MaxLen}
CStrings == {s \o <<0>> : s \in Texts}

\* blood_main is running, with three strings in memory and three char*
\* (each NULL or one of the strings) about to be compared
InitCmp ==
    /\ pc = "in_main"
    /\ term = "running"
    /\ rt = "ready"
    /\ calls = <<"blood_runtime_init", "blood_main">>
    /\ result = 0
    /\ returned = FALSE
    /\ exitStatus = 0
    /\ argv = <<"prog">>
    /\ argInit = <<>>
    /\ hardLimit = 64
    /\ softLimit = 8
    /\ execs = 0
    /\ stdoutBuf = <<>>
    /\ stdoutStream = <<>>
    /\ bufMode = "full"
    /\ fflushCalls = 0
    /\ stderrOut = <<>>
    /\ heap \in [1..3 -> CStrings]
    /\ last = NoCall
    /\ nprim = 0
    /\ cmpArgs \in {<<a, b, c>> : a \in {NULL, 1}, b \in {NULL, 2}, c \in {NULL, 3}}
    /\ cmpRes = <<>>

\* blood_str_cmp called on every ordered pair of the three char*
str_cmp_calls ==
    /\ InMain /\ cmpArgs # <<>> /\ cmpRes = <<>>
    /\ cmpRes' = [i \in 1..3 |-> [j \in 1..3 |->
                     blood_str_cmp(heap, cmpArgs[i], cmpArgs[j])]]
    /\ calls' = Append(calls, "blood_str_cmp")
    /\ UNCHANGED <<pc, term, rt, result, returned, exitStatus, envVars,
                   ioVars, stderrOut, heap, last, nprim, cmpArgs>>

NextCmp == str_cmp_calls

SpecCmp == InitCmp /\ [][NextCmp]_vars

(* --------------------------- formatted output -------------------------- *)
\* sample arguments of the print family
CharVals == {65, 266}
I64Vals == {-42, 7}
U64Vals == {0, 2147483647}
\* doubles, given as a count of halves: 3.5 and -1.5; a float: 0.5
F64Vals == {7, -3}
F32Vals == {1}
PrintBoolVals == {0, 2}

\* (char)c written by %c: the low eight bits
FmtChar(c) == <<c % 256>>
\* printf's %g for h/2 with |h/2| < 100000: the integer part, then ".5"
FmtG(h) ==
    LET m == IF h < 0 THEN -h ELSE h
    IN  (IF h < 0 THEN <<45>> ELSE <<>>)
            \o DecDigits(m \div 2)
            \o (IF m % 2 = 1 THEN <<46, 53>> ELSE <<>>)

\* the index of the last line terminator in s, or 0
LastNewline(s) ==
    IF \E i \in DOMAIN s : s[i] = 10
    THEN CHOOSE i \in DOMAIN s : s[i] = 10 /\ \A j \in DOMAIN s : s[j] = 10 => j <= i
    ELSE 0

\* printf on stdout: the bytes go to the buffer; a line-buffered stream
\* writes the buffer out through the last line terminator
Printf(io, text, mode) ==
    LET all == io.buf \o text
        k == IF mode = "line" THEN LastNewline(all) ELSE 0
    IN  [buf |-> SubSeq(all, k + 1, Len(all)),
         stream |-> io.stream \o SubSeq(all, 1, k)]

\* a print that leaves the buffer as it is
Fflush_noop(io) == io

\* fflush(stdout): the buffer is written out
Fflush(io) == [buf |-> <<>>, stream |-> io.stream \o io.buf]

Stdout == [buf |-> stdoutBuf, stream |-> stdoutStream]

\* printf(text); fflush(stdout);
PrintFlush(op, arg, text) ==
    /\ InMain /\ nprim < MaxPrints
    /\ LET io == Fflush(Printf(Stdout, text, bufMode))
       IN  /\ stdoutBuf' = io.buf
           /\ stdoutStream' = io.stream
    /\ fflushCalls' = fflushCalls + 1
    /\ Called(op, <<arg>>, 0)
    /\ UNCHANGED <<pc, term, rt, result, returned, exitStatus, envVars,
                   bufMode, stderrOut, heap, cmpVars>>

\* printf(text) alone
PrintBuffered(op, arg, text) ==
    /\ InMain /\ nprim < MaxPrints
    /\ LET io == Printf(Stdout, text, bufMode)
       IN  /\ stdoutBuf' = io.buf
           /\ stdoutStream' = io.stream
    /\ Called(op, <<arg>>, 0)
    /\ UNCHANGED <<pc, term, rt, result, returned, exitStatus, envVars,
                   bufMode, fflushCalls, stderrOut, heap, cmpVars>>

print_char(c) == PrintFlush("print_char", c, FmtChar(c))
println_char(c) == PrintBuffered("println_char", c, FmtChar(c) \o Newline)
println == PrintBuffered("println", 0, Newline)
print_i64(n) == PrintFlush("print_i64", n, FmtDec(n))
print_u64(n) == PrintFlush("print_u64", n, DecDigits(n))
println_u64(n) == PrintBuffered("println_u64", n, DecDigits(n) \o Newline)
print_f64(n) == PrintFlush("print_f64", n, FmtG(n))
println_f64(n) == PrintBuffered("println_f64", n, FmtG(n) \o Newline)
print_f32(n) == PrintFlush("print_f32", n, FmtG(n))
println_f32(n) == PrintBuffered("println_f32", n, FmtG(n) \o Newline)
print_bool(b) == PrintFlush("print_bool", b, BoolText(b))
println_bool(b) == PrintBuffered("println_bool", b, BoolText(b) \o Newline)

\* blood_main is running and about to print; stdout is fully buffered (a
\* file or a pipe) or line buffered (a terminal)
InitPrint ==
    /\ pc = "in_main"
    /\ term = "running"
    /\ rt = "ready"
    /\ calls = <<"blood_runtime_init", "blood_main">>
    /\ result = 0
    /\ returned = FALSE
    /\ exitStatus = 0
    /\ argv = <<"prog">>
    /\ argInit = <<>>
    /\ hardLimit = 64
    /\ softLimit = 8
    /\ execs = 0
    /\ stdoutBuf = <<>>
    /\ stdoutStream = <<>>
    /\ bufMode \in {"full", "line"}
    /\ fflushCalls = 0
    /\ stderrOut = <<>>
    /\ heap = ProgramStrings
    /\ last = NoCall
    /\ nprim = 0
    /\ cmpArgs = <<>>
    /\ cmpRes = <<>>

NextPrint ==
    \/ \E c \in CharVals : print_char(c)
    \/ \E c \in CharVals : println_char(c)
    \/ println
    \/ \E n \in I64Vals : print_i64(n)
    \/ \E n \in U64Vals : print_u64(n)
    \/ \E n \in U64Vals : println_u64(n)
    \/ \E n \in F64Vals : print_f64(n)
    \/ \E n \in F64Vals : println_f64(n)
    \/ \E n \in F32Vals : print_f32(n)
    \/ \E n \in F32Vals : println_f32(n)
    \/ \E b \in PrintBoolVals : print_bool(b)
    \/ \E b \in PrintBoolVals : println_bool(b)

SpecPrint == InitPrint /\ [][NextPrint]_vars

(* ------------------------- reading the state -------------------------- *)
\* positions of a call in the recorded order
Pos(name) == {i \in DOMAIN calls : calls[i] = name}
PrimNames ==
    {"blood_assert", "blood_assert_eq_int", "blood_assert_eq_bool",
     "blood_unreachable", "blood_str_concat", "blood_int_to_str"}
\* the primitives that allocate through string_alloc
AllocNames == {"blood_str_concat", "blood_int_to_str"}
PrimPos == {i \in DOMAIN calls : calls[i] \in PrimNames}

\* t occurs in s as a contiguous run of bytes
Contains(s, t) ==
    \E i \in 0..(Len(s) - Len(t)) : SubSeq(s, i + 1, i + Len(t)) = t
\* what a step appended to the error stream
Appended(old, new) == SubSeq(new, Len(old) + 1, Len(new))
\* the text of a byte array: the bytes before its terminator
Contents(s) == SubSeq(s, 1, strlen(s))
\* the text a char* stands for, an absent one standing for ""
NormText(h, p) == IF p = NULL THEN <<>> ELSE Contents(h[p])
\* the last call was an assertion that fails
FatalAssertion ==
    \/ last.op = "blood_assert" /\ last.args[1] = 0
    \/ last.op = "blood_assert_eq_int" /\ last.args[1] # last.args[2]
    \/ last.op = "blood_assert_eq_bool" /\ last.args[1] # last.args[2]
    \/ last.op = "blood_unreachable"

(* ------------------------------- claims -------------------------------- *)
\* C1: the runtime is initialised before blood_main is entered and before
\* any primitive call; it is shut down after blood_main returned, once; no
\* primitive call and no second entry follows the shutdown; the runtime
\* state is uninitialized, then ready, then shutdown, each step taken once.
C1_Lifecycle ==
    /\ Cardinality(Pos("blood_runtime_init")) <= 1
    /\ Cardinality(Pos("blood_main")) <= 1
    /\ Cardinality(Pos("blood_runtime_shutdown")) <= 1
    /\ rt = IF Pos("blood_runtime_shutdown") # {} THEN "shutdown"
            ELSE IF Pos("blood_runtime_init") # {} THEN "ready"
            ELSE "uninitialized"
    /\ \A i \in Pos("blood_main") \cup PrimPos \cup Pos("blood_runtime_shutdown") :
           \E j \in Pos("blood_runtime_init") : j < i
    /\ \A i \in Pos("blood_runtime_shutdown") :
           /\ \E j \in Pos("return") : j < i
           /\ \A j \in Pos("blood_main") \cup PrimPos : j < i
    /\ pc = "done" => Cardinality(Pos("blood_runtime_shutdown")) = 1

C1_Witness ==
    /\ pc = "done" /\ term = "exited" /\ rt = "shutdown"
    /\ PrimPos # {}

\* C2: the runtime is shut down exactly in the runs where blood_main
\* returns: once main is past the shutdown step it has been called; a
\* failing assertion aborts the process, and then it is never called.
C2_ShutdownIffReturn ==
    /\ Pos("blood_runtime_shutdown") # {} => returned
    /\ (returned /\ pc \in {"ret", "done"}) => Pos("blood_runtime_shutdown") # {}
    /\ FatalAssertion => term = "aborted"
    /\ term = "aborted" =>
           /\ ~returned
           /\ Pos("blood_runtime_shutdown") = {}
           /\ rt = "ready"

C2_Witness ==
    /\ term = "aborted" /\ nprim = 2
    /\ last.op = "blood_assert_eq_bool"

\* C3 as amended: a run that ends by exit has the status blood_main
\* returned, unless an allocation failure ended it, with status 1.
C3_ExitStatus ==
    term = "exited" =>
        IF returned
        THEN pc = "done" /\ exitStatus = result
        ELSE /\ exitStatus = OomStatus
             /\ last.op \in AllocNames
             /\ Contains(stderrOut, MsgOom)

C3_Witness ==
    /\ term = "exited" /\ returned /\ result = -1 /\ exitStatus = -1
    /\ PrimPos # {}

\* C3 as stated: every run that ends by exit has the status blood_main
\* returned; the out-of-memory path produces no other status.
C3_Original == term = "exited" => (returned /\ exitStatus = result)

C5_ArgsTransferred == calls # <<>> => argInit = <<argv>>

\* C7: blood_assert_eq_int(a, b) with a = b returns and changes nothing;
\* with a # b it writes a diagnostic holding both values to the error
\* stream and aborts; nothing runs after an abort.
C7_AssertEqInt ==
    [][/\ term # "aborted"
       /\ (last'.op = "blood_assert_eq_int" /\ nprim' = nprim + 1) =>
             LET a == last'.args[1]
                 b == last'.args[2]
             IN  IF a = b
                 THEN /\ term' = "running"
                      /\ UNCHANGED <<pc, rt, result, returned, exitStatus,
                                     envVars, ioVars, stderrOut, heap>>
                 ELSE /\ term' = "aborted"
                      /\ pc' = "in_main"
                      /\ Contains(Appended(stderrOut, stderrOut'), FmtDec(a))
                      /\ Contains(Appended(stderrOut, stderrOut'), FmtDec(b))
                      /\ UNCHANGED <<rt, returned>>]_vars

C7_Witness ==
    /\ term = "aborted"
    /\ last = [op |-> "blood_assert_eq_int", args |-> <<5, 6>>, ret |-> 0]

\* C9: a blood_str_concat(a, b) that returns gives a non-null block that was
\* not allocated before, holding the text of a followed by the text of b
\* (an absent one counting as ""), of length len(a) + len(b), and leaves
\* every other block as it was.
C9_Concat ==
    [][(last'.op = "blood_str_concat" /\ nprim' = nprim + 1 /\ term' = "running") =>
          LET a == last'.args[1]
              b == last'.args[2]
              r == last'.ret
          IN  /\ r # NULL
              /\ r \notin DOMAIN heap
              /\ r \in DOMAIN heap'
              /\ Contents(heap'[r]) = NormText(heap, a) \o NormText(heap, b)
              /\ Len(heap'[r]) = strlen(heap'[r]) + 1
              /\ blood_str_len(heap', r)
                   = blood_str_len(heap, a) + blood_str_len(heap, b)
              /\ \A q \in DOMAIN heap : heap'[q] = heap[q]]_vars

C9_Witness ==
    /\ term = "running" /\ last.op = "blood_str_concat"
    /\ last.args[1] = NULL /\ last.args[2] # NULL
    /\ Contents(heap[last.ret]) = <<97, 200>>

\* C10: blood_assert_eq_bool(a, b) returns whenever a and b have the same
\* truth value (zero is false, anything else true).
C10_BoolAgreement ==
    (last.op = "blood_assert_eq_bool" /\ (last.args[1] # 0) = (last.args[2] # 0))
        => term # "aborted"

\* the sign of a three-way result
Sign(x) == IF x < 0 THEN -1 ELSE IF x > 0 THEN 1 ELSE 0
\* s sorts strictly before t, byte by byte
LexLess(s, t) ==
    \E k \in 1..Len(t) :
        /\ k - 1 <= Len(s)
        /\ SubSeq(s, 1, k - 1) = SubSeq(t, 1, k - 1)
        /\ \/ k = Len(s) + 1
           \/ k <= Len(s) /\ s[k] < t[k]
\* the order the claim describes: absent first, then byte-lexicographic
RefOrder(h, p, q) ==
    IF p = NULL THEN (IF q = NULL THEN 0 ELSE -1)
    ELSE IF q = NULL THEN 1
    ELSE IF LexLess(Contents(h[p]), Contents(h[q])) THEN -1
    ELSE IF LexLess(Contents(h[q]), Contents(h[p])) THEN 1
    ELSE 0

\* C8: blood_str_cmp(x, x) = 0; an absent text sorts before every present
\* one; two present texts compare by byte-lexicographic order; the sign is
\* antisymmetric; "before" and "equal" are transitive.
C8_StrCmpOrder ==
    cmpRes # <<>> =>
        \A i, j, k \in 1..3 :
            /\ cmpRes[i][i] = 0
            /\ Sign(cmpRes[i][j]) = RefOrder(heap, cmpArgs[i], cmpArgs[j])
            /\ Sign(cmpRes[i][j]) = -Sign(cmpRes[j][i])
            /\ (cmpRes[i][j] < 0 /\ cmpRes[j][k] < 0) => cmpRes[i][k] < 0
            /\ (cmpRes[i][j] = 0 /\ cmpRes[j][k] = 0) => cmpRes[i][k] = 0

C8_Witness ==
    /\ cmpRes # <<>>
    /\ cmpArgs = <<NULL, 2, 3>>
    /\ heap[2] = <<0>> /\ heap[3] = <<97, 200, 0>>
    /\ cmpRes[1][2] < 0 /\ cmpRes[2][3] < 0 /\ cmpRes[3][1] > 0

NoNewlineOps ==
    {"print_char", "print_i64", "print_u64", "print_f64", "print_f32",
     "print_bool"}
NewlineOps ==
    {"println", "println_char", "println_u64", "println_f64", "println_f32",
     "println_bool"}
\* the textual form of the value a print call was given
ValueText(op, arg) ==
    CASE op \in {"print_char", "println_char"} -> FmtChar(arg)
      [] op = "print_i64" -> FmtDec(arg)
      [] op \in {"print_u64", "println_u64"} -> DecDigits(arg)
      [] op \in {"print_f64", "println_f64", "print_f32", "println_f32"} -> FmtG(arg)
      [] op \in {"print_bool", "println_bool"} -> BoolText(arg)
      [] op = "println" -> <<>>

\* C6: on return from a no-newline print the buffer is empty and the stream
\* holds everything written so far, in call order; a with-newline print
\* adds the value and a line terminator to the pending output and makes no
\* flush call (on a fully buffered stream the bytes stay in the buffer).
C6_FlushAsymmetry ==
    [][(nprim' = nprim + 1 /\ last'.op \in NoNewlineOps \cup NewlineOps) =>
          LET text == ValueText(last'.op, last'.args[1])
          IN  IF last'.op \in NoNewlineOps
              THEN /\ stdoutBuf' = <<>>
                   /\ stdoutStream' = stdoutStream \o stdoutBuf \o text
              ELSE /\ fflushCalls' = fflushCalls
                   /\ stdoutStream' \o stdoutBuf'
                        = stdoutStream \o stdoutBuf \o text \o Newline
                   /\ bufMode = "full" =>
                        /\ stdoutStream' = stdoutStream
                        /\ stdoutBuf' = stdoutBuf \o text \o Newline]_vars

C6_Witness ==
    /\ bufMode = "full"
    /\ last.op = "print_bool" /\ last.args = <<2>>
    /\ calls[Len(calls) - 1] = "println_u64"
    /\ stdoutBuf = <<>>
    /\ stdoutStream = <<48, 10>> \o TrueText

====
